---- MODULE Spec2Model ----
(***************************************************************************)
(* Model of the fastener-generator front end: the three fetch wrappers     *)
(* (chatParse, generateZip, fetchCatalog) and the App component's state    *)
(* (messages, text, busy, error) with its two handlers send() and          *)
(* download(item).                                                         *)
(***************************************************************************)
EXTENDS Integers, Sequences, FiniteSets, TLC

VARIABLES
    messages,     \* App state: the chat transcript (useState, app.jsx:139)
    text,         \* App state: the composer's input value (app.jsx:148)
    busy,         \* App state: the busy flag (app.jsx:149)
    error,        \* App state: the inline error string (app.jsx:150)
    chatPending,  \* send() invocations suspended at `await chatParse`
    genPending,   \* download() invocations suspended at `await generateZip`
    issued,       \* number of requests issued so far (also the next request id)
    alerts,       \* messages shown by window.alert, in order
    downloads,    \* file names handed to the browser through a.download
    thrown,       \* errors thrown by chatParse / generateZip, in order
    unhandled,    \* rejections no handler caught
    apiFn,        \* network function under examination
    apiRes,       \* the response fetch produced for it
    apiOut,       \* what the function did with that response
    plItem,       \* a FastenerMatch item given to download()
    plOut         \* the payload download() built from it

uiVars == <<messages, text, busy, error, chatPending, genPending, issued,
            alerts, downloads, thrown, unhandled>>
apiVars == <<apiFn, apiRes, apiOut>>
plVars == <<plItem, plOut>>
vars == <<messages, text, busy, error, chatPending, genPending, issued,
          alerts, downloads, thrown, unhandled, apiFn, apiRes, apiOut,
          plItem, plOut>>

\* Number of requests one run of the page issues.
MaxRequests == 3

-----------------------------------------------------------------------------
(* JavaScript values.  Every value is a record of the same shape: its type *)
(* tag t, its string s (strings), its integer n (numbers, booleans as 0/1, *)
(* arrays as their element count).                                         *)

Undefined == [t |-> "undefined", s |-> "", n |-> 0]
Null == [t |-> "null", s |-> "", n |-> 0]
NaN == [t |-> "nan", s |-> "", n |-> 0]
PlainObject == [t |-> "object", s |-> "", n |-> 0]
Str(x) == [t |-> "string", s |-> x, n |-> 0]
Num(k) == [t |-> "number", s |-> "", n |-> k]
Bool(b) == [t |-> "boolean", s |-> "", n |-> IF b THEN 1 ELSE 0]
\* An array of k plain objects.
ObjectArray(k) == [t |-> "array", s |-> "", n |-> k]

\* a ?? b
Coalesce(a, b) == IF a.t \in {"undefined", "null"} THEN b ELSE a

RECURSIVE JoinObjects(_)
\* Array.prototype.join over k plain objects.
JoinObjects(k) ==
    IF k = 0 THEN ""
    ELSE IF k = 1 THEN "[object Object]"
    ELSE "[object Object]," \o JoinObjects(k - 1)

\* ToString, as `new Error(v)` and template literals apply it.
ToStr(v) ==
    CASE v.t = "string" -> v.s
      [] v.t = "number" -> ToString(v.n)
      [] v.t = "nan" -> "NaN"
      [] v.t = "boolean" -> (IF v.n = 1 THEN "true" ELSE "false")
      [] v.t = "null" -> "null"
      [] v.t = "undefined" -> "undefined"
      [] v.t = "object" -> "[object Object]"
      [] v.t = "array" -> JoinObjects(v.n)

IsSpace(c) == c = " "

RECURSIVE TrimStart(_)
TrimStart(str) ==
    IF Len(str) = 0 THEN str
    ELSE IF IsSpace(SubSeq(str, 1, 1)) THEN TrimStart(SubSeq(str, 2, Len(str)))
    ELSE str

RECURSIVE TrimEnd(_)
TrimEnd(str) ==
    IF Len(str) = 0 THEN str
    ELSE IF IsSpace(SubSeq(str, Len(str), Len(str)))
         THEN TrimEnd(SubSeq(str, 1, Len(str) - 1))
    ELSE str

\* String.prototype.trim
Trim(str) == TrimStart(TrimEnd(str))

DigitValue(c) ==
    CASE c = "0" -> 0 [] c = "1" -> 1 [] c = "2" -> 2 [] c = "3" -> 3
      [] c = "4" -> 4 [] c = "5" -> 5 [] c = "6" -> 6 [] c = "7" -> 7
      [] c = "8" -> 8 [] c = "9" -> 9 [] OTHER -> -1

RECURSIVE AllDigits(_)
AllDigits(str) ==
    \/ Len(str) = 0
    \/ /\ DigitValue(SubSeq(str, 1, 1)) >= 0
       /\ AllDigits(SubSeq(str, 2, Len(str)))

RECURSIVE DigitsValue(_)
DigitsValue(str) ==
    IF Len(str) = 0 THEN 0
    ELSE 10 * DigitsValue(SubSeq(str, 1, Len(str) - 1))
         + DigitValue(SubSeq(str, Len(str), Len(str)))

\* Number(v): the numeric conversion (strings of decimal digits are the only
\* numeric strings the model feeds it).
Number(v) ==
    CASE v.t = "number" -> v
      [] v.t = "nan" -> NaN
      [] v.t = "undefined" -> NaN
      [] v.t = "null" -> Num(0)
      [] v.t = "boolean" -> Num(v.n)
      [] v.t = "string" ->
            (IF AllDigits(Trim(v.s)) THEN Num(DigitsValue(Trim(v.s))) ELSE NaN)
      [] v.t = "object" -> NaN
      [] v.t = "array" -> (IF v.n = 0 THEN Num(0) ELSE NaN)

\* Boolean(v): truthiness.
Boolean(v) ==
    CASE v.t = "boolean" -> v
      [] v.t = "number" -> Bool(v.n # 0)
      [] v.t = "string" -> Bool(v.s # "")
      [] v.t \in {"undefined", "null", "nan"} -> Bool(FALSE)
      [] v.t \in {"object", "array"} -> Bool(TRUE)

-----------------------------------------------------------------------------
(* FastenerMatch items and the payload download() builds from them.        *)

Item(part, family, type, size, len, simple) ==
    [part |-> part, family |-> family, fastener_type |-> type, size |-> size,
     length_mm |-> len, simple |-> simple]

LengthValues ==
    {Undefined, Null, Num(0), Num(20), Num(35), Str("20"), Str("long")}
SimpleValues == {Undefined, Null, Bool(TRUE), Bool(FALSE), Num(1), Str("")}
Shapes ==
    {<<"screw", "SocketHeadCapScrew", "iso4762">>,
     <<"nut", "HexNut", "iso4032">>,
     <<"washer", "PlainWasher", "iso7089">>}
Sizes == {"M6-1", "M8-1.25"}

Items ==
    {Item(sh[1], sh[2], sh[3], sz, len, simple) :
        sh \in Shapes, sz \in Sizes, len \in LengthValues, simple \in SimpleValues}

BuildPayloadDropNutCase(item) ==
    [part |-> item.part,
     family |-> item.family,
     fastener_type |-> item.fastener_type,
     size |-> item.size,
     length_mm |-> Number(item.length_mm),
     simple |-> Boolean(item.simple)]

BuildPayloadRawSimple(item) ==
    [part |-> item.part,
     family |-> item.family,
     fastener_type |-> item.fastener_type,
     size |-> item.size,
     length_mm |-> IF item.part = "screw" THEN Number(item.length_mm) ELSE Null,
     simple |-> item.simple]

\* The object literal of download(), app.jsx:194-201.
BuildPayload(item) ==
    [part |-> item.part,
     family |-> item.family,
     fastener_type |-> item.fastener_type,
     size |-> item.size,
     length_mm |-> IF item.part = "screw" THEN Number(item.length_mm) ELSE Null,
     simple |-> Boolean(item.simple)]

\* The a.download file name of download(), app.jsx:207 (Math.round leaves the
\* model's integers and NaN as they are).
FileName(item) ==
    item.part \o "_" \o item.size
    \o (IF item.part = "screw"
        THEN "_" \o ToStr(Number(item.length_mm)) \o "mm"
        ELSE "")
    \o ".zip"

NoPayload == [built |-> FALSE, payload |-> BuildPayload(Item("", "", "", "", Null, Bool(FALSE)))]

-----------------------------------------------------------------------------
(* HTTP responses as the fetch wrappers see them.  A body is what          *)
(* res.json() makes of it: parses is FALSE for an absent or non-JSON body; *)
(* top is the JSON value's type; detail, message and items are the fields  *)
(* of a JSON object (Undefined / empty when the field is missing).         *)

Body(parses, top, detail, message, items) ==
    [parses |-> parses, top |-> top, detail |-> detail, message |-> message,
     items |-> items]

Unparseable == Body(FALSE, "none", Undefined, Undefined, <<>>)
JsonNull == Body(TRUE, "null", Undefined, Undefined, <<>>)
JsonString == Body(TRUE, "string", Undefined, Undefined, <<>>)
JsonArray == Body(TRUE, "array", Undefined, Undefined, <<>>)
JsonObject(detail, message, items) == Body(TRUE, "object", detail, message, items)
EmptyObject == JsonObject(Undefined, Undefined, <<>>)

Screw20 == Item("screw", "SocketHeadCapScrew", "iso4762", "M6-1", Num(20), Bool(FALSE))
Nut6 == Item("nut", "HexNut", "iso4032", "M6-1", Null, Bool(FALSE))

Details ==
    {Undefined, Null, Str("X"), Str(""), Str("Unsupported size"), Num(0),
     Num(42), Bool(FALSE), ObjectArray(1), ObjectArray(2), PlainObject}

Bodies ==
    {Unparseable, JsonNull, JsonString, JsonArray}
    \cup {JsonObject(d, Undefined, <<>>) : d \in Details}
    \cup {JsonObject(Undefined, Str("Found 2 parts"), <<Screw20, Nut6>>),
          JsonObject(Undefined, Str("Nothing matched"), <<>>),
          JsonObject(Str("X"), Str("Found 1 part"), <<Nut6>>)}

\* fetch() rejected: no response at all.
NetworkFailure == [net |-> FALSE, ok |-> FALSE, body |-> Unparseable]
HttpResponse(ok, body) == [net |-> TRUE, ok |-> ok, body |-> body]

Responses ==
    {NetworkFailure} \cup {HttpResponse(ok, b) : ok \in BOOLEAN, b \in Bodies}

\* The message of the TypeError a rejected fetch() carries.
FetchFailed == "Failed to fetch"
\* The message of the SyntaxError res.json() rejects with.
JsonSyntaxError == "Unexpected end of JSON input"

Threw(message) == [called |-> TRUE, threw |-> TRUE, message |-> message, value |-> Unparseable]
Returned(value) == [called |-> TRUE, threw |-> FALSE, message |-> "", value |-> value]
NotCalled == [called |-> FALSE, threw |-> FALSE, message |-> "", value |-> Unparseable]

\* await res.json().catch(() => ({}))
ErrorBody(res) == IF res.body.parses THEN res.body ELSE EmptyObject

\* err?.detail
OptDetail(err) == IF err.top = "object" THEN err.detail ELSE Undefined

\* new Error(err?.detail ?? fallback).message
ErrorMessage(res, fallback) ==
    ToStr(Coalesce(OptDetail(ErrorBody(res)), Str(fallback)))

chatParseNoDetail(res) ==
    IF ~res.net THEN Threw(FetchFailed)
    ELSE IF ~res.ok THEN Threw("Chat failed")
    ELSE IF ~res.body.parses THEN Threw(JsonSyntaxError)
    ELSE Returned(res.body)

chatParse(res) ==
    IF ~res.net THEN Threw(FetchFailed)
    ELSE IF ~res.ok THEN Threw(ErrorMessage(res, "Chat failed"))
    ELSE IF ~res.body.parses THEN Threw(JsonSyntaxError)
    ELSE Returned(res.body)

generateZipChatFallback(res) ==
    IF ~res.net THEN Threw(FetchFailed)
    ELSE IF ~res.ok THEN Threw(ErrorMessage(res, "Chat failed"))
    ELSE Returned(res.body)

generateZip(res) ==
    IF ~res.net THEN Threw(FetchFailed)
    ELSE IF ~res.ok THEN Threw(ErrorMessage(res, "Generation failed"))
    ELSE Returned(res.body)

fetchCatalog(res) ==
    IF ~res.net THEN Threw(FetchFailed)
    ELSE IF ~res.ok THEN Threw("Failed to load catalog")
    ELSE IF ~res.body.parses THEN Threw(JsonSyntaxError)
    ELSE Returned(res.body)

Functions == {"chatParse", "generateZip", "fetchCatalog"}

Fallback(fn) ==
    CASE fn = "chatParse" -> "Chat failed"
      [] fn = "generateZip" -> "Generation failed"
      [] fn = "fetchCatalog" -> "Failed to load catalog"

-----------------------------------------------------------------------------
(* The App component.                                                      *)

Message(role, content, result) == [role |-> role, content |-> content, result |-> result]

\* The initial assistant message of useState, app.jsx:139-146 (text shortened).
Greeting == Message("assistant", Str("Hi! Tell me what fastener you want"), JsonNull)

Texts == {"", "  ", " M6 screw 20mm ", "M8 nut"}

\* Responses the backend gives the page's requests.
ChatResponses ==
    {NetworkFailure,
     HttpResponse(FALSE, JsonObject(Str("Unsupported size"), Undefined, <<>>)),
     HttpResponse(FALSE, Unparseable),
     HttpResponse(TRUE, JsonObject(Undefined, Str("Found 2 parts"), <<Screw20, Nut6>>)),
     HttpResponse(TRUE, JsonObject(Undefined, Str("Nothing matched"), <<>>)),
     HttpResponse(TRUE, JsonNull),
     HttpResponse(TRUE, Unparseable)}

GenerateResponses ==
    {NetworkFailure,
     HttpResponse(FALSE, JsonObject(Str("Unsupported size"), Undefined, <<>>)),
     HttpResponse(FALSE, JsonObject(Str(""), Undefined, <<>>)),
     HttpResponse(FALSE, Unparseable),
     HttpResponse(TRUE, Unparseable)}

\* The TypeError of reading parsed.message when parsed is null.
NullReadError == "Cannot read properties of null (reading 'message')"

UIInit ==
    /\ messages = <<Greeting>>
    /\ text = ""
    /\ busy = FALSE
    /\ error = ""
    /\ chatPending = {}
    /\ genPending = {}
    /\ issued = 0
    /\ alerts = <<>>
    /\ downloads = <<>>
    /\ thrown = <<>>
    /\ unhandled = <<>>

ApiIdle == apiFn = "chatParse" /\ apiRes = NetworkFailure /\ apiOut = NotCalled
PayloadIdle == plItem = Screw20 /\ plOut = NoPayload

Init == UIInit /\ ApiIdle /\ PayloadIdle

\* <input onChange>, app.jsx:302; the input is disabled while busy (305).
setText(t) ==
    /\ ~busy
    /\ text' = t
    /\ UNCHANGED <<messages, busy, error, chatPending, genPending, issued,
                   alerts, downloads, thrown, unhandled>>
    /\ UNCHANGED <<apiVars, plVars>>

\* send(), app.jsx:159-170, up to the await.  The Send button and the input
\* whose Enter key call it are both disabled while busy (305, 317).
send ==
    /\ ~busy
    /\ issued < MaxRequests
    /\ LET trimmed == Trim(text) IN
        IF trimmed = "" \/ busy
        THEN UNCHANGED uiVars
        ELSE /\ error' = ""
             /\ busy' = TRUE
             /\ messages' = Append(messages, Message("user", Str(trimmed), JsonNull))
             /\ text' = ""
             /\ chatPending' = chatPending \cup {[id |-> issued, text |-> trimmed]}
             /\ issued' = issued + 1
             /\ UNCHANGED <<genPending, alerts, downloads, thrown, unhandled>>
    /\ UNCHANGED <<apiVars, plVars>>

\* The try block of send() after the await, app.jsx:171-178.
sendThen(parsed) ==
    /\ messages' = Append(messages, Message("assistant", parsed.message, parsed))
    /\ UNCHANGED <<error, unhandled>>

sendCatchOverwrite(e) ==
    /\ messages' = [messages EXCEPT ![Len(messages)] =
            Message("assistant", Str("Hmm, I couldn't understand that. (" \o e \o ")"), JsonNull)]
    /\ error' = e
    /\ UNCHANGED unhandled

\* The catch block of send(), app.jsx:179-184.
sendCatch(e) ==
    /\ messages' = Append(messages,
            Message("assistant", Str("Hmm, I couldn't understand that. (" \o e \o ")"), JsonNull))
    /\ error' = e
    /\ UNCHANGED unhandled

sendResumeKeepBusyOnError(out) ==
    /\ IF out.threw THEN sendCatch(out.message)
       ELSE IF out.value.top = "null" THEN sendCatch(NullReadError)
       ELSE sendThen(out.value)
    /\ busy' = (out.threw /\ busy)

\* send() from the await on, app.jsx:169-187: try / catch / finally.
sendResume(out) ==
    /\ IF out.threw THEN sendCatch(out.message)
       ELSE IF out.value.top = "null" THEN sendCatch(NullReadError)
       ELSE sendThen(out.value)
    /\ busy' = FALSE

\* A chatParse request settles and the suspended send() runs to its end.
settleChat(r, res) ==
    /\ r \in chatPending
    /\ chatPending' = chatPending \ {r}
    /\ LET out == chatParse(res) IN
        /\ thrown' = IF out.threw
                     THEN Append(thrown, [fn |-> "chatParse", message |-> out.message])
                     ELSE thrown
        /\ sendResume(out)
    /\ UNCHANGED <<text, genPending, issued, alerts, downloads>>
    /\ UNCHANGED <<apiVars, plVars>>

\* The items whose ResultCard is on the page, app.jsx:281-290.
RenderedItems ==
    UNION {{messages[i].result.items[j] : j \in 1..Len(messages[i].result.items)} :
            i \in 1..Len(messages)}

\* download(item), app.jsx:190-203, up to the await.  The card's button
\* (97-100) has no disabled attribute and download() does not read busy.
download(item) ==
    /\ item \in RenderedItems
    /\ issued < MaxRequests
    /\ error' = ""
    /\ busy' = TRUE
    /\ genPending' = genPending \cup
            {[id |-> issued, item |-> item, payload |-> BuildPayload(item)]}
    /\ issued' = issued + 1
    /\ UNCHANGED <<messages, text, chatPending, alerts, downloads, thrown, unhandled>>
    /\ UNCHANGED <<apiVars, plVars>>

\* The try block of download() after the await, app.jsx:204-211.
downloadThen(item) ==
    /\ downloads' = Append(downloads, FileName(item))
    /\ UNCHANGED <<error, alerts, unhandled>>

downloadCatchNoAlert(e) ==
    /\ error' = e
    /\ UNCHANGED <<alerts, downloads, unhandled>>

\* The catch block of download(), app.jsx:212-214.
downloadCatch(e) ==
    /\ error' = e
    /\ alerts' = Append(alerts, e)
    /\ UNCHANGED <<downloads, unhandled>>

\* download() from the await on, app.jsx:203-217: try / catch / finally.
downloadResume(item, out) ==
    /\ IF out.threw THEN downloadCatch(out.message) ELSE downloadThen(item)
    /\ busy' = FALSE

\* A generateZip request settles and the suspended download() runs to its end.
settleGenerate(r, res) ==
    /\ r \in genPending
    /\ genPending' = genPending \ {r}
    /\ LET out == generateZip(res) IN
        /\ thrown' = IF out.threw
                     THEN Append(thrown, [fn |-> "generateZip", message |-> out.message])
                     ELSE thrown
        /\ downloadResume(r.item, out)
    /\ UNCHANGED <<messages, text, chatPending, issued>>
    /\ UNCHANGED <<apiVars, plVars>>

Next ==
    \/ \E t \in Texts : setText(t)
    \/ send
    \/ \E r \in chatPending, res \in ChatResponses : settleChat(r, res)
    \/ \E item \in RenderedItems : download(item)
    \/ \E r \in genPending, res \in GenerateResponses : settleGenerate(r, res)

Spec == Init /\ [][Next]_vars

\* Every issued request eventually settles.
Settles(id) ==
    \/ \E r \in chatPending, res \in ChatResponses : r.id = id /\ settleChat(r, res)
    \/ \E r \in genPending, res \in GenerateResponses : r.id = id /\ settleGenerate(r, res)

FairSpec == Spec /\ \A id \in 0..(MaxRequests - 1) : WF_vars(Settles(id))

-----------------------------------------------------------------------------
(* The fetch wrappers on their own: one call of one function on one        *)
(* response.                                                               *)

ApiInit ==
    /\ UIInit
    /\ PayloadIdle
    /\ apiFn \in Functions
    /\ apiRes \in Responses
    /\ apiOut = NotCalled

callChatParse ==
    /\ apiFn = "chatParse"
    /\ ~apiOut.called
    /\ apiOut' = chatParse(apiRes)
    /\ UNCHANGED <<apiFn, apiRes, uiVars, plVars>>

callGenerateZip ==
    /\ apiFn = "generateZip"
    /\ ~apiOut.called
    /\ apiOut' = generateZip(apiRes)
    /\ UNCHANGED <<apiFn, apiRes, uiVars, plVars>>

callFetchCatalog ==
    /\ apiFn = "fetchCatalog"
    /\ ~apiOut.called
    /\ apiOut' = fetchCatalog(apiRes)
    /\ UNCHANGED <<apiFn, apiRes, uiVars, plVars>>

ApiNext == callChatParse \/ callGenerateZip \/ callFetchCatalog

ApiSpec == ApiInit /\ [][ApiNext]_vars

(* download()'s payload on its own: one item, one payload.                 *)

PayloadInit ==
    /\ UIInit
    /\ ApiIdle
    /\ plItem \in Items
    /\ plOut = NoPayload

buildPayload ==
    /\ ~plOut.built
    /\ plOut' = [built |-> TRUE, payload |-> BuildPayload(plItem)]
    /\ UNCHANGED <<plItem, uiVars, apiVars>>

PayloadNext == buildPayload

PayloadSpec == PayloadInit /\ [][PayloadNext]_vars

-----------------------------------------------------------------------------
(* Properties.                                                             *)

InFlight == Cardinality(chatPending) + Cardinality(genPending)

\* C1: at most one generateZip request is in flight in every reachable state
\* (a second download() issues no request while the first is pending).
C1_OneGenerateInFlight == Cardinality(genPending) <= 1

\* C4: the number of pending chatParse plus generateZip requests never
\* exceeds 1.
C4_OneOperationInFlight == InFlight <= 1

\* C10: busy is true whenever a chatParse or generateZip request is in flight.
C10_BusyWhileInFlight == (InFlight > 0) => busy

\* The response is an HTTP response with a non-2xx status.
Rejected == apiOut.called /\ apiRes.net /\ ~apiRes.ok
\* ... whose body is a JSON object with a detail field.
HasDetail ==
    /\ apiRes.body.parses
    /\ apiRes.body.top = "object"
    /\ apiRes.body.detail.t # "undefined"
Detail == apiRes.body.detail

\* C2 as stated: for each of the three functions, a non-2xx response whose
\* JSON body carries detail X makes the function throw an error whose message
\* is exactly X.
C2_DetailIsMessage ==
    (Rejected /\ HasDetail) => (apiOut.threw /\ Str(apiOut.message) = Detail)

\* C2 amended: chatParse and generateZip throw an error whose message is
\* exactly X when detail is a string X, the string conversion of X when it is
\* another non-null value, the fallback when it is null; fetchCatalog throws
\* "Failed to load catalog" whatever the body says.
C2_DetailIsMessageOfChatAndGenerate ==
    (Rejected /\ HasDetail) =>
        /\ apiOut.threw
        /\ apiFn = "fetchCatalog" => apiOut.message = "Failed to load catalog"
        /\ apiFn # "fetchCatalog" =>
            /\ Detail.t = "string" => apiOut.message = Detail.s
            /\ Detail = Num(42) => apiOut.message = "42"
            /\ Detail = Bool(FALSE) => apiOut.message = "false"
            /\ Detail.t \in {"object", "array"} =>
                    SubSeq(apiOut.message, 1, 15) = "[object Object]"
            /\ Detail = Null => apiOut.message = Fallback(apiFn)

C2_Witness ==
    /\ Rejected /\ HasDetail
    /\ apiFn = "generateZip"
    /\ Detail = Str("Unsupported size")
    /\ apiOut.message = "Unsupported size"

NoDetail ==
    \/ ~apiRes.body.parses
    \/ apiRes.body.top # "object"
    \/ apiRes.body.detail.t = "undefined"

\* C3 as stated: a non-2xx response without a usable detail makes the
\* function throw its fallback string, and on a 2xx response no error is
\* thrown.
C3_FallbackElseNoError ==
    /\ (Rejected /\ NoDetail) => (apiOut.threw /\ apiOut.message = Fallback(apiFn))
    /\ (apiOut.called /\ apiRes.net /\ apiRes.ok) => ~apiOut.threw

\* C3 amended: a non-2xx response without a usable detail makes the function
\* throw its fallback string; on a 2xx response generateZip throws nothing,
\* and chatParse and fetchCatalog throw nothing when the body parses as JSON
\* but reject with the JSON parser's error when it does not.
C3_FallbackElseParsedBody ==
    /\ (Rejected /\ NoDetail) => (apiOut.threw /\ apiOut.message = Fallback(apiFn))
    /\ (apiOut.called /\ apiRes.net /\ apiRes.ok) =>
        IF apiFn = "generateZip" \/ apiRes.body.parses
        THEN ~apiOut.threw /\ apiOut.value = apiRes.body
        ELSE apiOut.threw /\ apiOut.message = JsonSyntaxError

C3_Witness ==
    /\ Rejected
    /\ ~apiRes.body.parses
    /\ apiFn = "generateZip"
    /\ apiOut.message = "Generation failed"

Contains(str, sub) ==
    \E i \in 1..(Len(str) - Len(sub) + 1) : SubSeq(str, i, i + Len(sub) - 1) = sub

\* C5: every step leaves the previous message list as a prefix of the new
\* one; a step of send() (issuing or resuming) appends exactly one message
\* and a step of download() (issuing or resuming) leaves the list unchanged.
C5_MessagesAppendOnly ==
    [][/\ Len(messages') >= Len(messages)
       /\ SubSeq(messages', 1, Len(messages)) = messages
       /\ chatPending' # chatPending => Len(messages') = Len(messages) + 1
       /\ genPending' # genPending => messages' = messages]_vars

C5_Witness ==
    /\ Len(messages) = 3
    /\ Len(alerts) = 1
    /\ Len(downloads) = 1

\* C6: an error thrown by chatParse or generateZip never escapes its handler;
\* the step that throws it sets the inline error to its message, and appends
\* one assistant message containing that message (chatParse) or raises an
\* alert with that message (generateZip).
C6_ErrorsCaught ==
    [][/\ unhandled' = <<>>
       /\ Len(thrown') > Len(thrown) =>
            LET e == thrown'[Len(thrown')] IN
            /\ error' = e.message
            /\ e.fn = "chatParse" =>
                /\ Len(messages') = Len(messages) + 1
                /\ messages'[Len(messages')].role = "assistant"
                /\ Contains(messages'[Len(messages')].content.s, e.message)
                /\ alerts' = alerts
            /\ e.fn = "generateZip" =>
                /\ alerts' = Append(alerts, e.message)]_vars

C6_Witness ==
    /\ \E i \in 1..Len(thrown) : thrown[i].fn = "chatParse"
    /\ Len(thrown) > 0
    /\ thrown[Len(thrown)].fn = "generateZip"
    /\ error = thrown[Len(thrown)].message
    /\ error # ""

C8_PayloadIsItem == plOut.built => plOut.payload = plItem

\* The items download() leaves as they are.
Canonical(item) ==
    /\ item.simple.t = "boolean"
    /\ IF item.part = "screw" THEN item.length_mm.t = "number"
       ELSE item.length_mm = Null

\* C8 amended: part, family, fastener_type and size are passed unchanged;
\* length_mm and simple are coerced, so the payload equals the item exactly
\* when simple is a boolean and length_mm is a number (screw) or null (any
\* other part).
C8_PayloadIsItemUpToCoercion ==
    plOut.built =>
        /\ plOut.payload.part = plItem.part
        /\ plOut.payload.family = plItem.family
        /\ plOut.payload.fastener_type = plItem.fastener_type
        /\ plOut.payload.size = plItem.size
        /\ (plOut.payload = plItem) <=> Canonical(plItem)

C8_Witness ==
    /\ plOut.built
    /\ plItem.part = "screw"
    /\ plItem.length_mm = Num(20)
    /\ plOut.payload = plItem

\* C9: length_mm of the payload is null when part is not "screw" and the
\* numeric value of the item's length_mm when it is; nut items that differ
\* only in length_mm give the same payload.
C9_LengthOnlyForScrews ==
    plOut.built =>
        /\ plItem.part # "screw" =>
            /\ plOut.payload.length_mm = Null
            /\ \A other \in Items :
                [other EXCEPT !.length_mm = Null] = [plItem EXCEPT !.length_mm = Null]
                    => BuildPayload(other) = plOut.payload
        /\ plItem.part = "screw" =>
            /\ plItem.length_mm.t = "number" => plOut.payload.length_mm = plItem.length_mm
            /\ plItem.length_mm = Str("20") => plOut.payload.length_mm = Num(20)
            /\ plItem.length_mm = Null => plOut.payload.length_mm = Num(0)
            /\ plItem.length_mm \in {Undefined, Str("long")} => plOut.payload.length_mm = NaN

C9_Witness ==
    /\ plOut.built
    /\ plItem.part = "nut"
    /\ plItem.length_mm = Num(35)
    /\ plOut.payload.length_mm = Null

====
